---------------------------- MODULE Spec2Model ----------------------------
(***************************************************************************)
(* Model of the workflow pipeline of the vertex API:                       *)
(*   - the flow endpoints of api/v1/routers/flows.py (create_flow,         *)
(*     update_flow, run_flow, cancel_flow) acting on the persisted flow    *)
(*     row, and                                                            *)
(*   - the Celery tasks of worker/celery_worker.py (run_flow_task and the  *)
(*     chain of the four stage tasks),                                     *)
(* and of its connection gateway, api/v1/routers/ws.py:                    *)
(*   - the ConnectionManager (connect, disconnect, broadcast_to_channel),  *)
(*   - the endpoints flow_websocket, agent_websocket and                   *)
(*     notifications_websocket.                                            *)
(*                                                                         *)
(* External collaborators are modelled by the contract the code relies on: *)
(*   - the store keeps, for a flow row, the fields the router reads and    *)
(*     writes (status, priority, created_at, started_at, completed_at,     *)
(*     result, error, execution_time; parameters is an opaque map the      *)
(*     handlers treat exactly as they treat priority, and is not carried); *)
(*   - every read of the time (datetime.now(), the created_at default)     *)
(*     returns a later value than the read before;                         *)
(*   - generate_content(prompt) either returns a text or raises;           *)
(*   - the Celery chain calls the next stage task when the previous one    *)
(*     has returned, and hands it the previous task's return value as the  *)
(*     *_result parameter the stage reads;                                 *)
(*   - get_current_user_ws resolves a user, or None when the token is      *)
(*     missing or not valid;                                               *)
(*   - send_text succeeds while the transport is up and raises afterwards; *)
(*     a subscription gets the events published on its channel, in order.  *)
(* Each HTTP handler is one step (one session, one commit).                *)
(***************************************************************************)
EXTENDS Naturals, Sequences, FiniteSets

(***************************************************************************)
(* Bounds of the model.                                                    *)
(***************************************************************************)
\* Number of chain executions (run_flow_task messages) the model follows.
MaxChains == 2
\* Number of run and cancel requests that are followed await by await.
MaxRequests == 2
\* Number of websockets the model of the connection manager follows.
MaxConns == 2
\* Number of events published on the bus, and of messages a client sends.
MaxEvents == 2
MaxInbound == 2

(***************************************************************************)
(* Values.                                                                 *)
(***************************************************************************)
\* Python None for a text column (result, error) or a text local.
None == "None"
\* Python None for a number or timestamp (times and priorities are >= 1).
NoneInt == 0

FlowIds == {"F1"}

\* class FlowStatus
FlowStatus == {"pending", "running", "completed", "failed", "cancelled"}

\* The stages of the chain, in the order run_flow_task chains them.
Stages == <<"strategy", "content", "community", "analytics">>
NumStages == Len(Stages)

\* What generate_content can do: return a text, or raise with a message.
Reasons == {"timeout"}
GenText(stage) == "text_" \o stage
GenOutcomes(stage) ==
    {[ok |-> TRUE, val |-> GenText(stage)]}
        \cup {[ok |-> FALSE, val |-> r] : r \in Reasons}

Priorities == {1, 2}

\* Users that authenticate, and the channels their websockets are put on.
Users == {"u1", "u2"}
Channels == {"flow:F1", "agent:A1"}
Conns == 1 .. MaxConns

VARIABLES
    flows,      \* the tasks table: flow id -> row, for the flows created
    clock,      \* the time the next read of the clock returns
    chains,     \* chain executions: slot -> state of one run_flow_task message
    published,  \* events published on the bus channel flow:<id>, in order
    last,       \* the response to the last HTTP request handled
    active_connections,  \* manager.active_connections: channel -> list
    user_connections,    \* manager.user_connections: user id -> websocket
    socks,      \* the websockets handed to the manager: id -> state
    bc,         \* the call of broadcast_to_channel in progress
    handlers,   \* the endpoint coroutines: websocket id -> state
    bus,        \* number of events published on the Event Bus so far
    reqs,       \* run and cancel requests followed await by await
    commits     \* number of commits those requests have made

flow_vars == <<flows, clock, chains, published, last>>
ws_vars == <<active_connections, user_connections, socks, bc, handlers, bus>>
race_vars == <<reqs, commits>>
vars == <<flows, clock, chains, published, last,
          active_connections, user_connections, socks, bc, handlers, bus,
          reqs, commits>>

(***************************************************************************)
(* Flow rows.                                                              *)
(***************************************************************************)
\* Task(project_id=..., flow_type=..., prompt=..., status=pending, ...)
NewFlow(priority, now) ==
    [status         |-> "pending",
     priority       |-> priority,
     created_at     |-> now,
     started_at     |-> NoneInt,
     completed_at   |-> NoneInt,
     result         |-> None,
     error          |-> None,
     execution_time |-> NoneInt]

Exists(id) == id \in DOMAIN flows

(***************************************************************************)
(* Chain executions.                                                       *)
(* pc: "none"      slot not used                                           *)
(*     "enqueued"  run_flow_task.delay(...) sent, task not yet run         *)
(*     "dispatch_failed"  run_flow_task returned status failed             *)
(*     "queued"    stage task number `stage` waits for a worker            *)
(*     "running"   stage task number `stage` is executing                  *)
(*     "done"      the last stage task has returned                        *)
(***************************************************************************)
\* prev is the return value of the stage task that returned last (the value
\* the chain hands to the next task); every_completed records whether every
\* stage task that has returned so far returned status completed; gen is
\* what the last call of generate_content did; late records whether the last
\* stage task of the chain returned while the flow's status was cancelled.
NoResult == [task_id |-> None, status |-> None, content |-> None, error |-> None]

\* No call of generate_content has ended yet.
NoOutcome == [ok |-> FALSE, val |-> None]

NoChain ==
    [pc |-> "none", flow_id |-> None, stage |-> 0, context |-> None,
     prev |-> NoResult, every_completed |-> TRUE, gen |-> NoOutcome,
     late |-> FALSE]

Slots == 1 .. MaxChains
FreeSlots == {c \in Slots : chains[c].pc = "none"}
HasFreeSlot == FreeSlots # {}
NextSlot == CHOOSE c \in FreeSlots : \A d \in FreeSlots : c <= d

\* background_tasks.add_task(run_flow_task.delay, str(flow.id), project_id, prompt)
Enqueue(id) ==
    [chains EXCEPT ![NextSlot] = [NoChain EXCEPT !.pc = "enqueued", !.flow_id = id]]

Respond(op, id, code) == last' = [op |-> op, id |-> id, code |-> code]


(***************************************************************************)
(* POST /flows/ : create_flow                                              *)
(***************************************************************************)
create_flow(id, project_exists, priority) ==
    /\ ~Exists(id)
    /\ IF ~project_exists
       THEN /\ Respond("create", id, 404)
            /\ UNCHANGED <<flows, clock, chains>>
       ELSE /\ HasFreeSlot
            /\ flows' = [i \in DOMAIN flows \cup {id} |->
                            IF i = id THEN NewFlow(priority, clock)
                                      ELSE flows[i]]
            /\ clock' = clock + 1
            /\ chains' = Enqueue(id)
            /\ Respond("create", id, 201)
    /\ UNCHANGED published

(***************************************************************************)
(* PUT /flows/{flow_id} : update_flow                                      *)
(* Each of status and priority is given or None.                           *)
(***************************************************************************)
UpdateEffect(f, status, priority) ==
    [f EXCEPT !.status = IF status # None THEN status ELSE @,
              !.priority = IF priority # NoneInt THEN priority ELSE @]

update_flow(id, status, priority) ==
    /\ IF ~Exists(id)
       THEN /\ Respond("update", id, 404)
            /\ UNCHANGED flows
       ELSE /\ flows' = [flows EXCEPT ![id] =
                            UpdateEffect(@, status, priority)]
            /\ Respond("update", id, 200)
    /\ UNCHANGED <<clock, chains, published>>

(***************************************************************************)
(* POST /flows/{flow_id}/run : run_flow                                    *)
(***************************************************************************)
\* Variant of the guard, used to test that the run claim depends on it: a
\* completed flow may be run again.
RunRejected_OnlyRunning(f) == f.status = "running"

\* if flow.status in [FlowStatus.running, FlowStatus.completed]: raise 400
RunRejected(f) == f.status \in {"running", "completed"}

RunEffect(f, now) == [f EXCEPT !.status = "running", !.started_at = now]

run_flow(id) ==
    /\ IF ~Exists(id)
       THEN /\ Respond("run", id, 404)
            /\ UNCHANGED <<flows, clock, chains>>
       ELSE IF RunRejected(flows[id])
       THEN /\ Respond("run", id, 400)
            /\ UNCHANGED <<flows, clock, chains>>
       ELSE /\ HasFreeSlot
            /\ flows' = [flows EXCEPT ![id] = RunEffect(@, clock)]
            /\ clock' = clock + 1
            /\ chains' = Enqueue(id)
            /\ Respond("run", id, 200)
    /\ UNCHANGED published

(***************************************************************************)
(* POST /flows/{flow_id}/cancel : cancel_flow                              *)
(***************************************************************************)
\* Variants of the guard, used to test that the cancel claims depend on it:
\* one that also lets a pending flow be cancelled, one that only protects a
\* completed flow.
CancelRejected_PendingAllowed(f) == f.status \notin {"pending", "running"}

CancelRejected_OnlyCompleted(f) == f.status = "completed"

\* if flow.status != FlowStatus.running: raise 400
CancelRejected(f) == f.status # "running"

CancelEffect(f) == [f EXCEPT !.status = "cancelled"]

cancel_flow(id) ==
    /\ IF ~Exists(id)
       THEN /\ Respond("cancel", id, 404)
            /\ UNCHANGED flows
       ELSE IF CancelRejected(flows[id])
       THEN /\ Respond("cancel", id, 400)
            /\ UNCHANGED flows
       ELSE /\ flows' = [flows EXCEPT ![id] = CancelEffect(@)]
            /\ Respond("cancel", id, 200)
    /\ UNCHANGED <<clock, chains, published>>

(***************************************************************************)
(* run_flow and cancel_flow, await by await.  Each handler opens its own   *)
(* session, awaits session.get (it then holds its own copy of the row),    *)
(* tests the status of that copy, assigns and awaits session.commit: the   *)
(* commit writes the columns the handler assigned.  Other requests run     *)
(* between the two awaits.  State of request r:                            *)
(*   pc "idle"    not issued                                               *)
(*      "loaded"  session.get has returned and the guard has passed        *)
(*      "done"    the response (code) is sent                              *)
(*   seen     the status of the row session.get returned                   *)
(*   version  the number of commits made when session.get returned         *)
(***************************************************************************)
Reqs == 1 .. MaxRequests
Ops == {"run", "cancel"}

NoReq ==
    [pc |-> "idle", op |-> None, id |-> None, seen |-> None, version |-> 0,
     code |-> 0]

\* The 400 guard of the handler of op, on the row f it has loaded.
Rejected(op, f) == IF op = "run" THEN RunRejected(f) ELSE CancelRejected(f)

\* flow = await session.get(Task, flow_id), then the 404 and 400 tests.
SessionGet(r, op, id) ==
    /\ reqs[r].pc = "idle"
    /\ reqs' = [reqs EXCEPT ![r] =
                   IF ~Exists(id)
                   THEN [NoReq EXCEPT !.pc = "done", !.op = op, !.id = id,
                                      !.code = 404]
                   ELSE IF Rejected(op, flows[id])
                   THEN [NoReq EXCEPT !.pc = "done", !.op = op, !.id = id,
                                      !.seen = flows[id].status,
                                      !.version = commits, !.code = 400]
                   ELSE [NoReq EXCEPT !.pc = "loaded", !.op = op, !.id = id,
                                      !.seen = flows[id].status,
                                      !.version = commits]]
    /\ UNCHANGED <<flows, clock, chains, published, last, commits>>

\* The assignments and await session.commit(); run_flow then hands
\* run_flow_task.delay to the background tasks.
SessionCommit(r) ==
    /\ reqs[r].pc = "loaded"
    /\ LET id == reqs[r].id
       IN IF reqs[r].op = "run"
          THEN /\ HasFreeSlot
               /\ flows' = [flows EXCEPT ![id] = RunEffect(@, clock)]
               /\ clock' = clock + 1
               /\ chains' = Enqueue(id)
          ELSE /\ flows' = [flows EXCEPT ![id] = CancelEffect(@)]
               /\ UNCHANGED <<clock, chains>>
    /\ reqs' = [reqs EXCEPT ![r].pc = "done", ![r].code = 200]
    /\ commits' = commits + 1
    /\ UNCHANGED <<published, last>>

(***************************************************************************)
(* worker/celery_worker.py                                                 *)
(***************************************************************************)
\* Variant of the stage task's except branch, used to test that the claim on
\* the returned dict depends on it: the message of the exception is dropped.
StageResult_ErrorDropped(stage, outcome) ==
    IF outcome.ok
    THEN [task_id |-> stage, status |-> "completed", content |-> outcome.val,
          error |-> None]
    ELSE [task_id |-> stage, status |-> "failed", content |-> None,
          error |-> None]

\* The dict a stage task returns: status completed with result.content, or
\* status failed with error.
StageResult(stage, outcome) ==
    IF outcome.ok
    THEN [task_id |-> stage, status |-> "completed", content |-> outcome.val,
          error |-> None]
    ELSE [task_id |-> stage, status |-> "failed", content |-> None,
          error |-> outcome.val]

\* context = ""
\* if strategy_result and strategy_result.get("result"):
\*     context = strategy_result["result"]["content"]
\* (the first stage takes the prompt and has no context)
StageContext(stage, prev) ==
    IF stage = 1 THEN None
    ELSE IF prev.status = "completed" THEN prev.content
    ELSE ""

\* What the chain does when stage task number `stage` has returned `result`:
\* a task that returns (whatever dict it returns) is followed by the next one.
AfterStage(stage, result) ==
    IF stage < NumStages
    THEN [pc |-> "queued", stage |-> stage + 1]
    ELSE [pc |-> "done", stage |-> stage]

\* run_flow_task: builds the chain and applies it; an exception while doing
\* so is caught and a status failed dict is returned.
run_flow_task(c, dispatched) ==
    /\ chains[c].pc = "enqueued"
    /\ chains' = [chains EXCEPT ![c].pc =
                      IF dispatched THEN "queued" ELSE "dispatch_failed",
                  ![c].stage = IF dispatched THEN 1 ELSE 0]
    /\ UNCHANGED <<flows, clock, published, last>>

\* A worker takes the stage task of chain c: the task computes its context
\* and calls generate_content.
StageStart(c) ==
    /\ chains[c].pc = "queued"
    /\ chains' = [chains EXCEPT ![c].pc = "running",
                                ![c].context =
                                    StageContext(chains[c].stage, chains[c].prev)]
    /\ UNCHANGED <<flows, clock, published, last>>

\* Variant of the store after a stage task, used to test that the claim on
\* late stage returns depends on the task leaving the store alone: the task
\* writes its status into the flow row.
StoreAfterStage_Written(id, result) ==
    IF id \in DOMAIN flows
    THEN [flows EXCEPT ![id].status = result.status,
                       ![id].result = result.content,
                       ![id].error = result.error]
    ELSE flows

\* The tasks table after the stage task of flow id has returned `result`: a
\* stage task opens no session and writes no row, it only returns its dict.
StoreAfterStage(id, result) == flows

\* The flow's row says cancelled when the stage task of chain c returns.
ReturnsLate(c) ==
    /\ chains[c].flow_id \in DOMAIN flows
    /\ flows[chains[c].flow_id].status = "cancelled"

\* generate_content returns or raises and the stage task returns its dict.
StageReturn(c) ==
    /\ chains[c].pc = "running"
    /\ \E outcome \in GenOutcomes(Stages[chains[c].stage]) :
           LET stage == chains[c].stage
               result == StageResult(Stages[stage], outcome)
               next == AfterStage(stage, result)
           IN /\ chains' = [chains EXCEPT
                                       ![c].pc = next.pc,
                                       ![c].stage = next.stage,
                                       ![c].context = None,
                                       ![c].prev = result,
                                       ![c].every_completed =
                                           @ /\ result.status = "completed",
                                       ![c].gen = outcome,
                                       ![c].late =
                                           (next.pc = "done" /\ ReturnsLate(c))]
              /\ flows' = StoreAfterStage(chains[c].flow_id, result)
    /\ UNCHANGED <<clock, published, last>>

(***************************************************************************)
(* api/v1/routers/ws.py: class ConnectionManager.                          *)
(*                                                                         *)
(* A websocket is a number.  The state of websocket w:                     *)
(*   state  "new"           not yet handed to manager.connect              *)
(*          "connected"     manager.connect(w, channel, user) has run      *)
(*          "disconnected"  manager.disconnect(w, channel, user) has run   *)
(*   open   send_text on w succeeds (the transport is up)                  *)
(* A Python dict is a function whose domain is the set of its keys, a      *)
(* Python list is a sequence.                                              *)
(***************************************************************************)
NoSock == [state |-> "new", channel |-> None, user |-> None, open |-> TRUE]

DictSet(d, k, v) == [x \in DOMAIN d \cup {k} |-> IF x = k THEN v ELSE d[x]]
DictDel(d, k) == [x \in DOMAIN d \ {k} |-> d[x]]

\* x in list
In(x, list) == \E i \in 1 .. Len(list) : list[i] = x

\* list.remove(x): removes the first item equal to x (x is in the list).
Remove(list, x) ==
    LET i == CHOOSE j \in 1 .. Len(list) :
                 list[j] = x /\ \A k \in 1 .. j - 1 : list[k] # x
    IN SubSeq(list, 1, i - 1) \o SubSeq(list, i + 1, Len(list))

\* How many times x is in the list.
Count(x, list) == Cardinality({i \in 1 .. Len(list) : list[i] = x})

\* websocket w is listed under the channel.
Registered(w, channel) ==
    /\ channel \in DOMAIN active_connections
    /\ In(w, active_connections[channel])

\* connect: active_connections after
\*   if channel not in self.active_connections: ...[channel] = []
\*   self.active_connections[channel].append(websocket)
ConnectActive(w, channel) ==
    DictSet(active_connections, channel,
            Append(IF channel \in DOMAIN active_connections
                   THEN active_connections[channel] ELSE << >>, w))

\* connect: user_connections after
\*   if user_id: self.user_connections[user_id] = websocket
ConnectUser(w, user) ==
    IF user # None THEN DictSet(user_connections, user, w)
    ELSE user_connections

\* disconnect: active_connections after
\*   if channel in self.active_connections:
\*       if websocket in ...[channel]: ...[channel].remove(websocket)
\*       if not ...[channel]: del ...[channel]
DisconnectActive(w, channel) ==
    IF channel \notin DOMAIN active_connections THEN active_connections
    ELSE LET list == IF In(w, active_connections[channel])
                     THEN Remove(active_connections[channel], w)
                     ELSE active_connections[channel]
         IN IF list = << >> THEN DictDel(active_connections, channel)
            ELSE DictSet(active_connections, channel, list)

\* disconnect: user_connections after
\*   if user_id and user_id in self.user_connections: del ...[user_id]
DisconnectUser(w, user) ==
    IF user # None /\ user \in DOMAIN user_connections
    THEN DictDel(user_connections, user)
    ELSE user_connections

(***************************************************************************)
(* broadcast_to_channel is a loop with an await in its body, so it is      *)
(* followed step by step:                                                  *)
(*   pc "idle"      no call yet                                            *)
(*      "iter"      at the head of the for loop                            *)
(*      "sending"   awaiting connection.send_text(message) for cur         *)
(*      "returned"  the call has returned                                  *)
(*      "raised"    the remove of the except branch raised                 *)
(* The for loop iterates the list object found under the channel when the  *)
(* loop starts, by index (idx items taken so far); the object is the one   *)
(* the registry holds until disconnect deletes the key (detached), and a   *)
(* deleted list is empty and stays empty.  initial is the list when the    *)
(* loop starts, sent the websockets whose send_text has returned, in       *)
(* order, failed the ones whose send_text raised and that were removed.    *)
(***************************************************************************)
NoBroadcast ==
    [pc |-> "idle", channel |-> None, idx |-> 0, cur |-> 0, initial |-> << >>,
     sent |-> << >>, failed |-> {}, detached |-> FALSE]

BroadcastActive == bc.pc \in {"iter", "sending"}

\* The list the for loop of the broadcast iterates, as it is now.
Iterated ==
    IF bc.detached \/ bc.channel \notin DOMAIN active_connections THEN << >>
    ELSE active_connections[bc.channel]

\* The broadcast in progress after active_connections has become `active`
\* by a disconnect on the channel.
BroadcastAfterDisconnect(channel, active) ==
    IF BroadcastActive /\ bc.channel = channel /\ channel \notin DOMAIN active
    THEN [bc EXCEPT !.detached = TRUE]
    ELSE bc

\* await manager.connect(websocket, channel, str(user.id)), as every
\* endpoint calls it for the websocket it was given.
connect(w, channel, user) ==
    /\ socks[w].state = "new"
    /\ active_connections' = ConnectActive(w, channel)
    /\ user_connections' = ConnectUser(w, user)
    /\ socks' = [socks EXCEPT ![w] = [state |-> "connected",
                                      channel |-> channel, user |-> user,
                                      open |-> TRUE]]
    /\ UNCHANGED bc

\* The transport of a connected websocket goes down (the client leaves):
\* from now on send_text on it raises.
SocketCloses(w) ==
    /\ socks[w].state = "connected"
    /\ socks[w].open
    /\ socks' = [socks EXCEPT ![w].open = FALSE]
    /\ UNCHANGED <<active_connections, user_connections, bc>>

\* manager.disconnect(websocket, channel, str(user.id)), as the endpoints
\* call it: in their except WebSocketDisconnect branch, with the arguments
\* they gave to connect.
disconnect(w) ==
    /\ socks[w].state = "connected"
    /\ ~socks[w].open
    /\ active_connections' = DisconnectActive(w, socks[w].channel)
    /\ user_connections' = DisconnectUser(w, socks[w].user)
    /\ socks' = [socks EXCEPT ![w].state = "disconnected"]
    /\ bc' = BroadcastAfterDisconnect(socks[w].channel,
                                      DisconnectActive(w, socks[w].channel))

\* broadcast_to_channel(message, channel) is called:
\*   if channel in self.active_connections:
\*       for connection in self.active_connections[channel]:
broadcast_to_channel(channel) ==
    /\ ~BroadcastActive
    /\ bc' = IF channel \in DOMAIN active_connections
             THEN [NoBroadcast EXCEPT !.pc = "iter", !.channel = channel,
                                      !.initial = active_connections[channel]]
             ELSE [NoBroadcast EXCEPT !.pc = "returned", !.channel = channel]
    /\ UNCHANGED <<active_connections, user_connections, socks>>

\* The for loop takes its next item, or ends.
BroadcastNext ==
    /\ bc.pc = "iter"
    /\ bc' = IF bc.idx < Len(Iterated)
             THEN [bc EXCEPT !.pc = "sending", !.idx = bc.idx + 1,
                             !.cur = Iterated[bc.idx + 1]]
             ELSE [bc EXCEPT !.pc = "returned", !.cur = 0]
    /\ UNCHANGED <<active_connections, user_connections, socks>>

\* await connection.send_text(message) returns, or raises and
\*   except: self.active_connections[channel].remove(connection)
\* runs; the remove raises in its turn when the key or the item is gone.
BroadcastSent ==
    /\ bc.pc = "sending"
    /\ IF socks[bc.cur].open
       THEN /\ bc' = [bc EXCEPT !.pc = "iter", !.sent = Append(@, bc.cur)]
            /\ UNCHANGED active_connections
       ELSE IF Registered(bc.cur, bc.channel)
       THEN /\ active_connections' =
                   DictSet(active_connections, bc.channel,
                           Remove(active_connections[bc.channel], bc.cur))
            /\ bc' = [bc EXCEPT !.pc = "iter", !.failed = @ \cup {bc.cur}]
       ELSE /\ bc' = [bc EXCEPT !.pc = "raised"]
            /\ UNCHANGED active_connections
    /\ UNCHANGED <<user_connections, socks>>

(***************************************************************************)
(* api/v1/routers/ws.py: the endpoints flow_websocket, agent_websocket and *)
(* notifications_websocket.  One coroutine per websocket; the websocket is *)
(* known by the number of its coroutine.  State of coroutine h:            *)
(*   ep, user    the endpoint called and the identity get_current_user_ws  *)
(*               resolved (None: no valid identity)                        *)
(*   pc "new"          the client has not connected yet                    *)
(*      "rejected"     websocket.close(code=4001) and return               *)
(*      "connected"    manager.connect has run, at the head of the try     *)
(*      "greeted"      the connection message is sent                      *)
(*      "subscribed"   pubsub.subscribe has run (flow: before the status)  *)
(*      "poll_bus"     at pubsub.get_message                               *)
(*      "poll_client"  at websocket.receive_text (flow endpoint only)      *)
(*      "returned"     the coroutine has returned                          *)
(*      "raised"       the coroutine has ended with an exception           *)
(*   open        the transport is up: send_text succeeds                   *)
(*   subscribed  the coroutine's bus subscription exists                   *)
(*   queue       events the subscription holds, not yet taken              *)
(*   inbox       messages the client has sent, not yet received            *)
(*   out         what has been sent to the client, in order                *)
(*   pings       number of ping messages the coroutine has received        *)
(*   inbound     number of messages the client has sent                    *)
(*   close_code  code of the close the endpoint sent, 0 if none            *)
(* The exception a send_text raises on a closed transport depends on the   *)
(* server and its version: WebSocketDisconnect or another one.             *)
(***************************************************************************)
\* The endpoint coroutines share only the manager and the bus; the model of
\* the endpoints follows one of them.
Handlers == {1}
Endpoints == {"flow", "agent", "notifications"}
ClientMessages == {"ping", "text", "garbage"}
SendErrors == {"WebSocketDisconnect", "RuntimeError"}
Live == {"connected", "greeted", "subscribed", "poll_bus", "poll_client"}

NoHandler ==
    [ep |-> None, user |-> None, pc |-> "new", open |-> FALSE,
     subscribed |-> FALSE, queue |-> << >>, inbox |-> << >>, out |-> << >>,
     pings |-> 0, inbound |-> 0, close_code |-> 0]

\* f"flow:{flow_id}", f"agent:{agent_id}", f"notifications:{user.id}"
ChannelOf(ep, user) ==
    IF ep = "flow" THEN "flow:F1"
    ELSE IF ep = "agent" THEN "agent:A1"
    ELSE "notifications:" \o user

BusChannels == {ChannelOf(ep, user) : ep \in Endpoints, user \in Users}

\* A message sent to the client: its type, the number of the bus event it
\* relays (0 if none), the flow status it carries (None if none) and, for
\* a relayed event, the channel the event was published on.
Msg(type, n, status) ==
    [type |-> type, n |-> n, status |-> status, channel |-> None]

\* msg["data"].decode(): the text of a bus event e, relayed as it is.
EventMsg(e) == [Msg("event", e.n, None) EXCEPT !.channel = e.channel]

\* Variant of the subscription, used to test that the claim on the relayed
\* events depends on it: a subscription gets the events of every channel.
Receives_AnyChannel(hr, channel) == hr.subscribed

\* pubsub.subscribe(channel): the subscription of the coroutine in state
\* hr gets what is published on its own channel, once it exists.
Receives(hr, channel) ==
    hr.subscribed /\ ChannelOf(hr.ep, hr.user) = channel

\* Variant of the identity check, used to test that the rejection claim
\* depends on it: every client is let in.
Authenticated_Anyone(user) == TRUE

\* if not user: ... close ... return
Authenticated(user) == user # None

\* Variant of the ping branch, used to test that the pong claim depends on
\* it: every message of the client is answered.
Reply_Always(message) == << Msg("pong", 0, None) >>

\* if message.get("type") == "ping": await websocket.send_text(pong)
Reply(message) ==
    IF message = "ping" THEN << Msg("pong", 0, None) >> ELSE << >>

\* The coroutine is over: the server closes the transport.
Ended(hr, how) == [hr EXCEPT !.pc = how, !.open = FALSE]

\* finally: if 'redis' in locals(): await pubsub.unsubscribe(...)
\* (flow_websocket only: the other endpoints have no finally).
Finally(hr) ==
    IF hr.ep = "flow" /\ hr.subscribed
    THEN [hr EXCEPT !.subscribed = FALSE] ELSE hr

\* The coroutine h, in state hr, leaves its try: unregister tells whether
\* the except WebSocketDisconnect branch runs (manager.disconnect).
HandlerEnds(h, hr, unregister, how) ==
    /\ handlers' = [handlers EXCEPT ![h] = Ended(Finally(hr), how)]
    /\ IF unregister
       THEN /\ active_connections' =
                   DisconnectActive(h, ChannelOf(hr.ep, hr.user))
            /\ user_connections' = DisconnectUser(h, hr.user)
       ELSE UNCHANGED <<active_connections, user_connections>>

\* Exception e is raised in the try of the endpoint, outside the inner try.
Raise(h, hr, e) ==
    IF e = "WebSocketDisconnect"
    THEN HandlerEnds(h, hr, TRUE, "returned")
    ELSE HandlerEnds(h, hr, FALSE, "raised")

\* await websocket.send_text(m) in the try of the endpoint, then go to pc.
Send(h, hr, m, pc) ==
    IF hr.open
    THEN /\ handlers' = [handlers EXCEPT
                             ![h] = [hr EXCEPT !.out = Append(@, m), !.pc = pc]]
         /\ UNCHANGED <<active_connections, user_connections>>
    ELSE \E e \in SendErrors : Raise(h, hr, e)

\* The first lines of an endpoint: the identity is checked, then
\* await manager.connect(websocket, channel, str(user.id)).
EndpointOpen(h, ep, user) ==
    /\ handlers[h].pc = "new"
    /\ IF ~Authenticated(user)
       THEN /\ handlers' = [handlers EXCEPT ![h] =
                               [NoHandler EXCEPT !.ep = ep, !.user = user,
                                                 !.pc = "rejected",
                                                 !.close_code = 4001]]
            /\ UNCHANGED <<active_connections, user_connections>>
       ELSE /\ handlers' = [handlers EXCEPT ![h] =
                               [NoHandler EXCEPT !.ep = ep, !.user = user,
                                                 !.pc = "connected",
                                                 !.open = TRUE]]
            /\ active_connections' = ConnectActive(h, ChannelOf(ep, user))
            /\ user_connections' = ConnectUser(h, user)
    /\ UNCHANGED bus

flow_websocket(h, user) == EndpointOpen(h, "flow", user)
agent_websocket(h, user) == EndpointOpen(h, "agent", user)
notifications_websocket(h, user) == EndpointOpen(h, "notifications", user)

\* await websocket.send_text(json.dumps({"type": "connection", ...}))
Greet(h) ==
    /\ handlers[h].pc = "connected"
    /\ Send(h, handlers[h], Msg("connection", 0, None), "greeted")
    /\ UNCHANGED bus

\* redis = await aioredis.create_redis_pool(...); await pubsub.subscribe(...)
Subscribe(h) ==
    /\ handlers[h].pc = "greeted"
    /\ handlers' = [handlers EXCEPT
                        ![h].subscribed = TRUE,
                        ![h].pc = IF handlers[h].ep = "flow"
                                  THEN "subscribed" ELSE "poll_bus"]
    /\ UNCHANGED <<active_connections, user_connections, bus>>

\* Variant of the status read, used to test that the snapshot claim
\* depends on it: the status the flow was created with.
PersistedStatus_Initial(id) == "pending"

\* flow = await session.get(Task, flow_id) ... "status": flow.status
PersistedStatus(id) == flows[id].status

\* flow = await session.get(Task, flow_id); if flow: send flow_status
Snapshot(h) ==
    /\ handlers[h].pc = "subscribed"
    /\ IF "F1" \in DOMAIN flows
       THEN Send(h, handlers[h], Msg("flow_status", 0, PersistedStatus("F1")),
                 "poll_bus")
       ELSE /\ handlers' = [handlers EXCEPT ![h].pc = "poll_bus"]
            /\ UNCHANGED <<active_connections, user_connections>>
    /\ UNCHANGED bus

\* Variant of the loop body, used to test that the claim on the two
\* directions of the relay depends on it: the loop never reads the client.
AfterPollBus_NoReceive(ep) == "poll_bus"

\* What follows the bus poll in a pass of the loop: flow_websocket goes on
\* to websocket.receive_text, the other endpoints come back to get_message.
AfterPollBus(ep) == IF ep = "flow" THEN "poll_client" ELSE "poll_bus"

\* msg = await pubsub.get_message(..., timeout=1)
\* if msg: await websocket.send_text(msg["data"].decode())
PollBus(h) ==
    /\ handlers[h].pc = "poll_bus"
    /\ LET hr == handlers[h]
           next == AfterPollBus(hr.ep)
       IN IF hr.queue # << >>
          THEN Send(h, [hr EXCEPT !.queue = Tail(@)],
                    EventMsg(Head(hr.queue)), next)
          ELSE /\ hr.ep = "flow"
               /\ handlers' = [handlers EXCEPT ![h].pc = next]
               /\ UNCHANGED <<active_connections, user_connections>>
    /\ UNCHANGED bus

\* data = await asyncio.wait_for(websocket.receive_text(), timeout=0.1)
\* message = json.loads(data); if ping: send pong
\* except asyncio.TimeoutError: continue; except WebSocketDisconnect: break
PollClient(h) ==
    /\ handlers[h].pc = "poll_client"
    /\ LET hr == handlers[h]
           taken == [hr EXCEPT !.inbox = Tail(@)]
       IN IF hr.inbox # << >>
          THEN IF Head(hr.inbox) = "garbage"
               THEN Raise(h, taken, "JSONDecodeError")
               ELSE IF Reply(Head(hr.inbox)) = << >>
               THEN /\ handlers' = [handlers EXCEPT
                                        ![h] = [taken EXCEPT !.pc = "poll_bus"]]
                    /\ UNCHANGED <<active_connections, user_connections>>
               ELSE LET read == [taken EXCEPT
                                     !.pings = IF Head(hr.inbox) = "ping"
                                               THEN @ + 1 ELSE @]
                    IN IF hr.open
                       THEN Send(h, read, Reply(Head(hr.inbox))[1], "poll_bus")
                       ELSE \E e \in SendErrors :
                                IF e = "WebSocketDisconnect"
                                THEN HandlerEnds(h, read, FALSE, "returned")
                                ELSE Raise(h, read, e)
          ELSE IF ~hr.open
          THEN HandlerEnds(h, hr, FALSE, "returned")
          ELSE /\ handlers' = [handlers EXCEPT ![h].pc = "poll_bus"]
               /\ UNCHANGED <<active_connections, user_connections>>
    /\ UNCHANGED bus

\* The client of a flow websocket sends a text (the other endpoints never
\* call receive).
ClientSends(h, message) ==
    /\ handlers[h].pc \in Live
    /\ handlers[h].ep = "flow"
    /\ handlers[h].open
    /\ handlers[h].inbound < MaxInbound
    /\ handlers' = [handlers EXCEPT ![h].inbox = Append(@, message),
                                    ![h].inbound = @ + 1]
    /\ UNCHANGED <<active_connections, user_connections, bus>>

\* The client leaves: the transport goes down.
ClientLeaves(h) ==
    /\ handlers[h].pc \in Live
    /\ handlers[h].open
    /\ handlers' = [handlers EXCEPT ![h].open = FALSE]
    /\ UNCHANGED <<active_connections, user_connections, bus>>

\* An event is published on a channel of the bus: every subscription to
\* the channel gets it, numbered in the order of publication.
Publish(channel) ==
    /\ bus < MaxEvents
    /\ bus' = bus + 1
    /\ handlers' = [h \in Handlers |->
                       IF Receives(handlers[h], channel)
                       THEN [handlers[h] EXCEPT
                                !.queue = Append(@, [n |-> bus + 1,
                                                     channel |-> channel])]
                       ELSE handlers[h]]
    /\ UNCHANGED <<active_connections, user_connections>>

(***************************************************************************)
(* Specification.                                                          *)
(***************************************************************************)
Init ==
    /\ flows = [id \in {} |-> NewFlow(1, 1)]
    /\ clock = 1
    /\ chains = [c \in Slots |-> NoChain]
    /\ published = << >>
    /\ last = [op |-> "none", id |-> None, code |-> 0]
    /\ active_connections = [ch \in {} |-> << >>]
    /\ user_connections = [u \in {} |-> 0]
    /\ socks = [w \in Conns |-> NoSock]
    /\ bc = NoBroadcast
    /\ handlers = [h \in Handlers |-> NoHandler]
    /\ bus = 0
    /\ reqs = [r \in Reqs |-> NoReq]
    /\ commits = 0

Request ==
    \E id \in FlowIds :
        \/ \E pe \in BOOLEAN, pr \in Priorities : create_flow(id, pe, pr)
        \/ \E st \in FlowStatus \cup {None}, pr \in Priorities \cup {NoneInt} :
               update_flow(id, st, pr)
        \/ run_flow(id)
        \/ cancel_flow(id)

Worker ==
    \E c \in Slots :
        \/ \E d \in BOOLEAN : run_flow_task(c, d)
        \/ StageStart(c)
        \/ StageReturn(c)

\* The pipeline: the requests on the flow endpoints and the worker.
Next ==
    \/ Request /\ UNCHANGED <<ws_vars, race_vars>>
    \/ Worker /\ UNCHANGED <<ws_vars, race_vars>>

Spec == Init /\ [][Next]_vars

\* Celery workers keep taking the tasks that are queued; nothing makes a
\* client send another request.
LiveSpec ==
    Init /\ [][Next]_vars /\ WF_vars(Worker /\ UNCHANGED <<ws_vars, race_vars>>)

\* The connection manager under the calls the endpoints make on it.
Manager ==
    \/ \E w \in Conns, channel \in Channels, user \in Users :
           connect(w, channel, user)
    \/ \E w \in Conns : SocketCloses(w)
    \/ \E w \in Conns : disconnect(w)

Broadcast ==
    \/ \E channel \in Channels : broadcast_to_channel(channel)
    \/ BroadcastNext
    \/ BroadcastSent

RegistryNext ==
    \/ Manager /\ UNCHANGED <<flow_vars, handlers, bus, race_vars>>
    \/ Broadcast /\ UNCHANGED <<flow_vars, handlers, bus, race_vars>>

RegistrySpec == Init /\ [][RegistryNext]_vars

\* The gateway: clients, endpoint coroutines and the bus; a flow may be
\* created meanwhile.
Client ==
    \E h \in Handlers :
        \/ \E user \in Users \cup {None} :
               \/ flow_websocket(h, user)
               \/ agent_websocket(h, user)
               \/ notifications_websocket(h, user)
        \/ \E message \in ClientMessages : ClientSends(h, message)
        \/ ClientLeaves(h)

Handler ==
    \E h \in Handlers :
        \/ Greet(h)
        \/ Subscribe(h)
        \/ Snapshot(h)
        \/ PollBus(h)
        \/ PollClient(h)

Bus == \E channel \in BusChannels : Publish(channel)

FlowCreated == \E id \in FlowIds : create_flow(id, TRUE, 1)

\* The status of the flow changes while clients are connected: a manual
\* run of the pending flow is accepted.
FlowStarted ==
    \E id \in FlowIds :
        Exists(id) /\ flows[id].status = "pending" /\ run_flow(id)

GatewayNext ==
    \/ Client /\ UNCHANGED <<flow_vars, socks, bc, race_vars>>
    \/ Handler /\ UNCHANGED <<flow_vars, socks, bc, race_vars>>
    \/ Bus /\ UNCHANGED <<flow_vars, socks, bc, race_vars>>
    \/ FlowCreated /\ UNCHANGED <<ws_vars, race_vars>>
    \/ FlowStarted /\ UNCHANGED <<ws_vars, race_vars>>

GatewaySpec == Init /\ [][GatewayNext]_vars

\* The event loop keeps running the endpoint coroutines; nothing makes a
\* client send or leave, or an event be published.
GatewayLive ==
    Init /\ [][GatewayNext]_vars
         /\ WF_vars(Handler /\ UNCHANGED <<flow_vars, socks, bc, race_vars>>)

\* Requests on one flow that overlap: the flow is created and run by
\* requests that are over when the next one comes, then run and cancel
\* requests are served await by await.
Earlier ==
    \E id \in FlowIds :
        \/ \E priority \in Priorities : create_flow(id, TRUE, priority)
        \/ run_flow(id)

Overlapping ==
    \E r \in Reqs :
        \/ \E op \in Ops, id \in FlowIds : SessionGet(r, op, id)
        \/ SessionCommit(r)

RaceNext ==
    \/ Earlier /\ UNCHANGED <<ws_vars, race_vars>>
    \/ Overlapping /\ UNCHANGED ws_vars

RaceSpec == Init /\ [][RaceNext]_vars

(***************************************************************************)
(* Vocabulary of the claims (section 4.3 of the specification).            *)
(***************************************************************************)
Terminal == {"completed", "failed", "cancelled"}

TransitionTable ==
    {<<"pending", "running">>, <<"running", "running">>,
     <<"running", "completed">>, <<"running", "failed">>,
     <<"running", "cancelled">>, <<"pending", "cancelled">>}

\* The events of a flow whose four stages all succeed, in publish order.
ExpectedEvents ==
    <<"status:running", "stage:strategy:completed", "stage:content:completed",
      "stage:community:completed", "status:completed">>

StageEvents(events) ==
    SelectSeq(events, LAMBDA e : e \in {"stage:" \o Stages[k] \o ":completed" :
                                            k \in 1 .. NumStages})

(***************************************************************************)
(* C1. Every change of a flow's status is one of the moves of the          *)
(* transition table: pending->running, running->running,                   *)
(* running->completed, running->failed, running->cancelled,                *)
(* pending->cancelled.                                                     *)
(***************************************************************************)
C1_StatusFollowsTable ==
    [][\A id \in DOMAIN flows :
          flows'[id].status # flows[id].status
              => <<flows[id].status, flows'[id].status>> \in TransitionTable]_vars

(***************************************************************************)
(* C2. Terminal states are absorbing: once a flow is completed, failed or  *)
(* cancelled, no step changes its status.                                  *)
(***************************************************************************)
C2_TerminalAbsorbing ==
    [][\A id \in DOMAIN flows :
          flows[id].status \in Terminal
              => flows'[id].status = flows[id].status]_vars

C4_CancelOnlyFromActive ==
    [][\A id \in FlowIds :
          cancel_flow(id)
              => /\ last'.code = 200
                     => Exists(id) /\ flows[id].status \in {"pending", "running"}
                 /\ (Exists(id) /\ flows[id].status \in Terminal)
                     => last'.code = 400 /\ flows' = flows]_vars

\* A second cancel of a cancelled flow has just been answered.
C4_Witness ==
    \E id \in DOMAIN flows :
        /\ last = [op |-> "cancel", id |-> id, code |-> 400]
        /\ flows[id].status = "cancelled"

(***************************************************************************)
(* C5. When a stage fails the chain halts: once a stage task of a chain    *)
(* has returned status failed, no later stage of that chain is executed    *)
(* and no stage event is published any more.                               *)
(***************************************************************************)
C5_ChainHaltsOnFailure ==
    [][\A c \in Slots :
          ~chains[c].every_completed
              => /\ chains'[c].pc = "running" => chains[c].pc = "running"
                 /\ StageEvents(published') = StageEvents(published)]_vars

(***************************************************************************)
(* C6. The outcome of the chain is persisted: when the last stage has      *)
(* returned, the flow eventually is completed with a result if every       *)
(* stage completed, and eventually is failed with an error if a stage      *)
(* failed.                                                                 *)
(***************************************************************************)
C6_OutcomePersisted ==
    \A c \in Slots :
        [](chains[c].pc = "done"
            => <>(\E id \in DOMAIN flows :
                     /\ id = chains[c].flow_id
                     /\ IF chains[c].every_completed
                        THEN flows[id].status = "completed" /\ flows[id].result # None
                        ELSE flows[id].status = "failed" /\ flows[id].error \in Reasons))

(***************************************************************************)
(* C7. The stages of a flow execute strictly in order: the stage that is   *)
(* queued or running follows the stage that returned last, a running       *)
(* stage has the previous stage's output as its context, and no two        *)
(* stages of the same flow are executing at once.                          *)
(***************************************************************************)
C7_StagesSequential ==
    /\ \A c \in Slots :
           chains[c].pc \in {"queued", "running"}
               => /\ chains[c].stage \in 1 .. NumStages
                  /\ chains[c].prev.task_id =
                         IF chains[c].stage = 1 THEN None
                         ELSE Stages[chains[c].stage - 1]
    /\ \A c \in Slots :
           (chains[c].pc = "running" /\ chains[c].prev.status = "completed")
               => chains[c].context = chains[c].prev.content
    /\ \A c, d \in Slots :
           (c # d /\ chains[c].flow_id = chains[d].flow_id)
               => ~(chains[c].pc = "running" /\ chains[d].pc = "running")

(***************************************************************************)
(* C8. For a flow whose four stages all succeed, the events published on   *)
(* the flow's channel are status:running, stage:strategy:completed,        *)
(* stage:content:completed, stage:community:completed, status:completed,   *)
(* in this order.                                                          *)
(***************************************************************************)
C8_EventsOfSuccessfulFlow ==
    \A c \in Slots :
        (chains[c].pc = "done" /\ chains[c].every_completed)
            => published = ExpectedEvents

(***************************************************************************)
(* C9. started_at is set if and only if the status is not pending.         *)
(***************************************************************************)
C9_StartedIffLeftPending ==
    \A id \in DOMAIN flows :
        (flows[id].started_at # NoneInt) <=> (flows[id].status # "pending")

(***************************************************************************)
(* C10. completed_at is set and exactly one of result and error is set if  *)
(* and only if the status is terminal.                                     *)
(***************************************************************************)
C10_CompletedIffTerminal ==
    \A id \in DOMAIN flows :
        (/\ flows[id].completed_at # NoneInt
         /\ (flows[id].result # None) # (flows[id].error # None))
            <=> (flows[id].status \in Terminal)

C12_LateReturnLeavesFlow ==
    [][\A c \in Slots :
           (ReturnsLate(c) /\ chains'[c] # chains[c]) => flows' = flows]_vars

\* A flow was cancelled before its chain was over, the stage tasks that were
\* left have returned, the last of them while the row said cancelled, and
\* the row still says cancelled with no result and no completion time.
C12_Witness ==
    \E c \in Slots :
        /\ chains[c].late
        /\ chains[c].pc = "done"
        /\ flows[chains[c].flow_id].status = "cancelled"
        /\ flows[chains[c].flow_id].result = None
        /\ flows[chains[c].flow_id].completed_at = NoneInt
        /\ last.op = "cancel"
        /\ last.code = 200

\* C13: when a broadcast to a channel has returned, every websocket that
\* was registered under the channel when the broadcast began and on which
\* send_text succeeds (it is open) has been sent the message exactly once,
\* and no websocket has been sent it twice, wherever the websockets whose
\* send fails stand in the list.
C13_BroadcastReachesEveryOpen ==
    bc.pc = "returned" =>
        /\ \A w \in Conns :
               (In(w, bc.initial) /\ socks[w].open) => Count(w, bc.sent) = 1
        /\ \A w \in Conns : Count(w, bc.sent) <= 1

\* C14: when a broadcast to a channel has returned, every websocket whose
\* send failed during the broadcast is out of the registry (it is not listed
\* under the channel and no entry of user_connections holds it), and every
\* websocket whose send succeeded is still listed under the channel.
C14_BroadcastPrunesExactlyFailed ==
    bc.pc = "returned" =>
        /\ \A w \in bc.failed :
               /\ ~Registered(w, bc.channel)
               /\ \A user \in DOMAIN user_connections :
                      user_connections[user] # w
        /\ \A w \in Conns : In(w, bc.sent) => Registered(w, bc.channel)

\* C19: every key of active_connections has at least one websocket listed
\* under it, and no websocket is listed twice under the same channel.
C19_NoEmptyChannel ==
    \A channel \in DOMAIN active_connections :
        /\ active_connections[channel] # << >>
        /\ \A w \in Conns : Count(w, active_connections[channel]) <= 1

\* C20: a disconnect of websocket w leaves every other websocket registered
\* exactly as before: it is listed under the same channels, and the entries
\* of user_connections that hold it are still there and still hold it.
C20_DisconnectLeavesOthers ==
    [][\A w \in Conns :
           disconnect(w) =>
               \A v \in Conns \ {w} :
                   /\ \A channel \in Channels :
                          Registered(v, channel) <=> Registered(v, channel)'
                   /\ \A user \in DOMAIN user_connections :
                          user_connections[user] = v =>
                              /\ user \in DOMAIN user_connections'
                              /\ user_connections'[user] = v]_vars

\* C15: once the coroutine of a flow websocket is over, however it ended
\* (the client left, or a send or the processing of a message raised, seen
\* at a receive or at a send), the websocket is listed under no channel.
C15_EndedFlowConnectionUnregistered ==
    \A h \in Handlers :
        (handlers[h].ep = "flow" /\ handlers[h].pc \in {"returned", "raised"})
            => \A channel \in DOMAIN active_connections :
                   ~In(h, active_connections[channel])

\* C16: on the flow, agent and notifications endpoints, no bus subscription
\* exists whose coroutine is over.
C16_EndedConnectionUnsubscribed ==
    \A h \in Handlers :
        handlers[h].pc \in {"returned", "raised"} => ~handlers[h].subscribed

\* C17: a websocket for which no valid identity is resolved is closed with
\* the authentication error (code 4001), is listed under no channel and in
\* no entry of user_connections, has no bus subscription, holds no event
\* and has been sent nothing.
C17_UnauthenticatedRejected ==
    \A h \in Handlers :
        (handlers[h].pc # "new" /\ handlers[h].user = None) =>
            /\ handlers[h].pc = "rejected"
            /\ handlers[h].close_code = 4001
            /\ \A channel \in DOMAIN active_connections :
                   ~In(h, active_connections[channel])
            /\ \A user \in DOMAIN user_connections : user_connections[user] # h
            /\ ~handlers[h].subscribed
            /\ handlers[h].queue = << >>
            /\ handlers[h].out = << >>

\* A client without identity has been turned away from the flow endpoint,
\* and events have been published since.
C17_Witness ==
    \E h \in Handlers :
        /\ handlers[h].pc = "rejected"
        /\ handlers[h].ep = "flow"
        /\ handlers[h].user = None
        /\ handlers[h].close_code = 4001
        /\ bus = MaxEvents

\* The numbers of the events relayed in a sequence of sent messages.
Relayed(out) == SelectSeq(out, LAMBDA m : m.type = "event")
Pongs(out) == SelectSeq(out, LAMBDA m : m.type = "pong")
Increasing(events) ==
    \A i, j \in 1 .. Len(events) : i < j => events[i].n < events[j].n

\* The pings the client of h has sent: received or still in the inbox.
PingsSent(h) == handlers[h].pings + Count("ping", handlers[h].inbox)

\* On a flow websocket whose transport is up, the pongs sent are as many as
\* the pings received (one pong for each ping, sent in the loop pass that
\* received it, so before any further event is relayed); and the events
\* are relayed in the order of their publication, the events the
\* subscription still holds coming after all of them, whether or not a
\* ping was answered in between.
PongsMatchPings ==
    \A h \in Handlers :
        handlers[h].ep = "flow" =>
            /\ handlers[h].open =>
                   Len(Pongs(handlers[h].out)) = handlers[h].pings
            /\ Len(Pongs(handlers[h].out)) <= handlers[h].pings
            /\ Increasing(Relayed(handlers[h].out))
            /\ \A i \in 1 .. Len(Relayed(handlers[h].out)),
                  j \in 1 .. Len(handlers[h].queue) :
                   Relayed(handlers[h].out)[i].n < handlers[h].queue[j].n

ActiveChains(id) ==
    {c \in Slots : /\ chains[c].flow_id = id
                   /\ chains[c].pc \in {"enqueued", "queued", "running"}}

\* C22: at any time at most one chain execution is enqueued or running for
\* a given flow, whatever create and manual run requests have been made.
C22_OneChainPerFlow ==
    \A id \in FlowIds : Cardinality(ActiveChains(id)) <= 1

\* C30: a manual run of a flow whose status is running or completed is
\* answered 400, leaves the row (status and started_at included) as it was
\* and enqueues no chain execution; a manual run that is accepted sets
\* status to running and started_at to the time of the request, and the
\* chain execution it enqueues finds the row in that state.
C30_RunRejectedOrStarted ==
    [][\A id \in FlowIds :
           (run_flow(id) /\ Exists(id)) =>
               IF flows[id].status \in {"running", "completed"}
               THEN /\ last'.code = 400
                    /\ flows' = flows
                    /\ chains' = chains
               ELSE /\ last'.code = 200
                    /\ flows'[id].status = "running"
                    /\ flows'[id].started_at = clock
                    /\ flows'[id].started_at # NoneInt
                    /\ \E c \in Slots :
                           /\ chains[c].pc = "none"
                           /\ chains'[c].pc = "enqueued"
                           /\ chains'[c].flow_id = id
                           /\ \A d \in Slots \ {c} : chains'[d] = chains[d]]_vars

\* A manual run of a completed flow has been answered 400 and the row still
\* says completed, after an earlier manual run had been accepted.
C30_Witness ==
    \E id \in FlowIds :
        /\ Exists(id)
        /\ last = [op |-> "run", id |-> id, code |-> 400]
        /\ flows[id].status = "completed"
        /\ flows[id].started_at # NoneInt
        /\ \E c \in Slots : chains[c].pc # "none" /\ c # 1

\* C21: of the run and cancel requests on one flow that have loaded the
\* same state of the row (none of them had committed when the other one
\* read), at most one reports success: the others see the status the winner
\* wrote and are rejected.
C21_TransitionsSerialized ==
    \A r1, r2 \in Reqs :
        (/\ r1 # r2
         /\ reqs[r1].pc = "done" /\ reqs[r2].pc = "done"
         /\ reqs[r1].id = reqs[r2].id
         /\ reqs[r1].version = reqs[r2].version
         /\ reqs[r1].code = 200)
            => reqs[r2].code # 200

\* C23: a websocket that is listed under the channel from the start of a
\* broadcast to its end, and on which send_text succeeds, has been sent
\* the message exactly once when the broadcast is over, whatever connects
\* and disconnects of other websockets came between the sends (the case in
\* which no send of the broadcast failed: the registry was changed by the
\* other calls alone).
C23_BroadcastAtomic ==
    (bc.pc \in {"returned", "raised"} /\ bc.failed = {}) =>
        \A w \in Conns :
            (/\ In(w, bc.initial)
             /\ Registered(w, bc.channel)
             /\ socks[w].open) => Count(w, bc.sent) = 1

\* The websockets connected for the user that are still listed under their
\* channel.
RegisteredFor(user) ==
    {w \in Conns : /\ socks[w].state # "new"
                   /\ socks[w].user = user
                   /\ Registered(w, socks[w].channel)}

\* C29: as long as only connect and disconnect have been called (no
\* broadcast), user_connections has an entry for a user exactly when a
\* websocket connected for the user is still listed in active_connections,
\* and the entry is one of those websockets.
C29_UserEntryMatchesRegistry ==
    bc.pc = "idle" =>
        \A user \in Users :
            /\ user \in DOMAIN user_connections <=> RegisteredFor(user) # {}
            /\ user \in DOMAIN user_connections =>
                   user_connections[user] \in RegisteredFor(user)

\* C24: when the relay loop of a flow websocket takes a client message that
\* is not a ping (an unknown type, a JSON value that is not an object, text
\* that is not JSON), nothing is sent, the loop goes on to its next pass,
\* and the websocket stays registered and subscribed.
C24_NonPingIgnored ==
    [][\A h \in Handlers :
           (/\ PollClient(h)
            /\ handlers[h].inbox # << >>
            /\ Head(handlers[h].inbox) # "ping") =>
               /\ handlers'[h].pc = "poll_bus"
               /\ handlers'[h].out = handlers[h].out
               /\ handlers'[h].subscribed
               /\ Registered(h, ChannelOf(handlers[h].ep, handlers[h].user))']_vars

\* C26: on the flow, agent and notifications endpoints, once the client of
\* a websocket has left, the coroutine of the websocket eventually ends,
\* whether or not another event is published on its channel.
C26_LoopEndsAfterDisconnect ==
    \A h \in Handlers :
        (handlers[h].pc \in Live /\ ~handlers[h].open) ~>
            (handlers[h].pc \in {"returned", "raised"})

OwnEventsInOrder ==
    \A h \in Handlers :
        LET hr == handlers[h]
            events == Relayed(hr.out) \o [j \in 1 .. Len(hr.queue) |->
                                             EventMsg(hr.queue[j])]
        IN /\ Increasing(events)
           /\ \A i \in 1 .. Len(events) :
                  /\ events[i].channel = ChannelOf(hr.ep, hr.user)
                  /\ events[i].n \in 1 .. bus

\* A subscription starts empty and gets an event only when the event is
\* published, after the subscription was made; a websocket is relayed
\* only the event at the head of its subscription.
OnlyPublishedSinceSubscribed ==
    \A h \in Handlers :
        LET hr == handlers[h]
            after == handlers'[h]
        IN /\ (~hr.subscribed /\ after.subscribed) =>
                  after.queue = << >> /\ Relayed(after.out) = << >>
           /\ \/ after.queue = hr.queue
              \/ /\ hr.subscribed
                 /\ bus' = bus + 1
                 /\ Len(after.queue) = Len(hr.queue) + 1
                 /\ SubSeq(after.queue, 1, Len(hr.queue)) = hr.queue
                 /\ after.queue[Len(after.queue)].n = bus'
              \/ hr.queue # << >> /\ after.queue = Tail(hr.queue)
           /\ \/ Relayed(after.out) = Relayed(hr.out)
              \/ /\ hr.queue # << >>
                 /\ after.queue = Tail(hr.queue)
                 /\ Relayed(after.out) =
                        Append(Relayed(hr.out), EventMsg(Head(hr.queue)))

\* C27: the events published on a channel are relayed to a client
\* subscribed to it in the order of publication, each at most once; a
\* client is never relayed an event published on another channel, or
\* published before its subscription was made.
C27_RelayedInPublishOrder ==
    /\ []OwnEventsInOrder
    /\ [][OnlyPublishedSinceSubscribed]_vars
    /\ [][\A h \in Handlers, channel \in BusChannels :
              (/\ Publish(channel)
               /\ handlers[h].subscribed
               /\ ChannelOf(handlers[h].ep, handlers[h].user) = channel) =>
                  handlers'[h].queue =
                      Append(handlers[h].queue,
                             [n |-> bus + 1, channel |-> channel])]_vars

\* A client has been relayed the last event published and not the one
\* before, which was published before its subscription or on another
\* channel.
C27_Witness ==
    \E h \in Handlers :
        /\ handlers[h].open
        /\ handlers[h].subscribed
        /\ handlers[h].queue = << >>
        /\ bus = MaxEvents
        /\ Len(Relayed(handlers[h].out)) = 1
        /\ Relayed(handlers[h].out)[1].n = MaxEvents

\* A websocket is registered before it is sent anything; what a flow
\* websocket is sent starts with the connection message, the snapshot of
\* the flow status comes next or not at all, and the relayed events and
\* the pongs come after both.
ConnectionThenSnapshot ==
    \A h \in Handlers :
        LET hr == handlers[h]
        IN /\ hr.pc = "connected" =>
                  /\ Registered(h, ChannelOf(hr.ep, hr.user))
                  /\ hr.out = << >>
           /\ \A i \in 1 .. Len(hr.out) :
                  /\ hr.out[i].type = "connection" <=> i = 1
                  /\ hr.out[i].type = "flow_status" => hr.ep = "flow" /\ i = 2

\* The coroutine of a flow websocket whose transport is up goes past the
\* read of the flow: if the flow exists, the client has then been sent the
\* connection message and the status the row holds at that time, and
\* nothing else.
SnapshotOfExistingFlow ==
    \A h \in Handlers, id \in FlowIds :
        (/\ handlers[h].ep = "flow"
         /\ handlers[h].pc = "subscribed"
         /\ handlers'[h].pc # "subscribed"
         /\ handlers[h].open
         /\ Exists(id)) =>
            /\ handlers'[h].pc = "poll_bus"
            /\ handlers'[h].out = << Msg("connection", 0, None),
                                     Msg("flow_status", 0, flows[id].status) >>

\* C28: an authenticated client that connects to the channel of an
\* existing flow is sent first the connection message, then the snapshot
\* of the status the flow has at that time, both before any relayed
\* event; and the websocket is registered before the connection message
\* is sent.
C28_ConnectionThenSnapshot ==
    /\ []ConnectionThenSnapshot
    /\ [][SnapshotOfExistingFlow]_vars

\* A client that connected while the flow was running has been sent the
\* connection message, the snapshot saying running, then an event that was
\* published before the snapshot was read.
C28_Witness ==
    \E h \in Handlers :
        /\ handlers[h].open
        /\ Len(handlers[h].out) = 3
        /\ handlers[h].out[1].type = "connection"
        /\ handlers[h].out[2] = Msg("flow_status", 0, "running")
        /\ handlers[h].out[3].type = "event"
        /\ handlers[h].queue # << >>

=============================================================================
